---------------------------- MODULE Spec2Model ----------------------------
(***************************************************************************)
(* A model of avl_tree.py: the node objects (_AVLNode), the EMPTY_NODE     *)
(* singleton (_EmptyAVLNode) and the AVLTree handle.                       *)
(*                                                                         *)
(* Node objects live in a heap, a function from object identities to the   *)
(* object's fields.  Identity 0 is EMPTY_NODE, which has no entry, left or *)
(* right attribute and no clear/max/min method: using one of them raises   *)
(* AttributeError.  Every node method is an operator that takes the heap   *)
(* and returns the heap it leaves behind, the returned reference and how   *)
(* the call ended ("ok", "KeyError", "AttributeError"); an exception       *)
(* propagates without the pending assignments of its callers, but keeps    *)
(* the mutations already made.                                             *)
(***************************************************************************)
EXTENDS Integers, Sequences, FiniteSets, TLC

\* Entries are the integers 1..MaxEntry.
MaxEntry == 5
\* Where two handles are in use, their entries are 1..MaxEntry2 and at most
\* MaxNodes _AVLNode objects are alive at a time.
MaxEntry2 == 3
MaxNodes == 6
\* Where a handle and its shallow copy are in use, the entries are
\* 1..MaxEntryCopy and at most MaxNodesCopy objects are alive at a time.
MaxEntryCopy == 2
MaxNodesCopy == 3

Entries == 1..MaxEntry
Entries2 == 1..MaxEntry2
EntriesCopy == 1..MaxEntryCopy
\* an entry above Entries2, and the entries above it
Pivot == MaxEntry2 + 1
EntriesAbove == {Pivot + e : e \in Entries2}
Ids == 1..(MaxEntry + MaxNodes + MaxNodesCopy)
Handles == {"t", "u"}
\* the selectors of traverse: the three it names, its default, and one it
\* does not know
Orders == {"preorder", "postorder", "bfs", "inorder", "levelorder"}

\* The identity of the EMPTY_NODE singleton.
EMPTY_NODE == 0

VARIABLES
    heap,     \* the live _AVLNode objects: identity -> [entry, left, right, height]
    root,     \* AVLTree.root of each tree handle
    S,        \* the set of entries an ordered set run beside handle t would hold
    result    \* the last public call: [op, h, y, arg, st, val]

vars == <<heap, root, S, result>>

Max2(a, b) == IF a >= b THEN a ELSE b

----------------------------------------------------------------------------
(* _EmptyAVLNode and _AVLNode: attributes *)

\* _AVLNode.__bool__ / _EmptyAVLNode.__bool__
Truthy(n) == n # EMPTY_NODE

\* node.height
Height(h, n) == IF n = EMPTY_NODE THEN 0 ELSE h[n].height

\* node.balance_factor
balance_factor(h, n) ==
    IF n = EMPTY_NODE THEN 0
    ELSE Height(h, h[n].left) - Height(h, h[n].right)

\* _AVLNode.is_leaf
is_leaf(h, n) == ~(Truthy(h[n].left) \/ Truthy(h[n].right))

\* _AVLNode.__init__: a new object gets an identity no live object has
NewId(h) == CHOOSE i \in Ids \ DOMAIN h : \A j \in Ids \ DOMAIN h : i <= j

_AVLNode(e) == [entry |-> e, left |-> EMPTY_NODE, right |-> EMPTY_NODE, height |-> 1]

Ok(h, r) == [h |-> h, r |-> r, st |-> "ok"]
Raise(h, exc) == [h |-> h, r |-> EMPTY_NODE, st |-> exc]

----------------------------------------------------------------------------
(* heights and rotations *)

_update_height(h, n) ==
    [h EXCEPT ![n].height = 1 + Max2(Height(h, h[n].left), Height(h, h[n].right))]

\* _rotate_left without its first _update_height: the old root keeps the
\* height it had above the rotation
rotate_left_stale(h, n) ==
    LET right_tree == h[n].right
        h1 == [h EXCEPT ![n].right = h[right_tree].left]
        h2 == [h1 EXCEPT ![right_tree].left = n]
        h4 == _update_height(h2, right_tree)
    IN  Ok(h4, right_tree)

_rotate_left(h, n) ==
    LET right_tree == h[n].right
        h1 == [h EXCEPT ![n].right = h[right_tree].left]
        h2 == [h1 EXCEPT ![right_tree].left = n]
        h3 == _update_height(h2, n)
        h4 == _update_height(h3, right_tree)
    IN  Ok(h4, right_tree)

\* _rotate_right that does not hand left_tree.right over to the old root
rotate_right_drop(h, n) ==
    LET left_tree == h[n].left
        h1 == [h EXCEPT ![n].left = EMPTY_NODE]
        h2 == [h1 EXCEPT ![left_tree].right = n]
        h3 == _update_height(h2, n)
        h4 == _update_height(h3, left_tree)
    IN  Ok(h4, left_tree)

_rotate_right(h, n) ==
    LET left_tree == h[n].left
        h1 == [h EXCEPT ![n].left = h[left_tree].right]
        h2 == [h1 EXCEPT ![left_tree].right = n]
        h3 == _update_height(h2, n)
        h4 == _update_height(h3, left_tree)
    IN  Ok(h4, left_tree)

_rotate_left_right(h, n) ==
    LET sub == _rotate_left(h, h[n].left)
    IN  _rotate_right([sub.h EXCEPT ![n].left = sub.r], n)

_rotate_right_left(h, n) ==
    LET sub == _rotate_right(h, h[n].right)
    IN  _rotate_left([sub.h EXCEPT ![n].right = sub.r], n)

\* the rotation chosen with the single rotations tested first, so that the
\* double rotations are never taken
balance_single_first(h, n) ==
    IF balance_factor(h, n) = -2 THEN _rotate_left(h, n)
    ELSE IF balance_factor(h, n) = 2 THEN _rotate_right(h, n)
    ELSE Ok(h, n)

\* a rebalancing step that never rotates
balance_never(h, n) == Ok(h, n)

_balance_tree_if_unbalanced(h, n) ==
    IF balance_factor(h, n) = 2 /\ balance_factor(h, h[n].left) = -1
        THEN _rotate_left_right(h, n)
    ELSE IF balance_factor(h, n) = -2 /\ balance_factor(h, h[n].right) = 1
        THEN _rotate_right_left(h, n)
    ELSE IF balance_factor(h, n) = -2
        THEN _rotate_left(h, n)
    ELSE IF balance_factor(h, n) = 2
        THEN _rotate_right(h, n)
    ELSE Ok(h, n)

\* _balanced_tree that trusts the cached height of the position it is given
balanced_tree_stale(h, n) == _balance_tree_if_unbalanced(h, n)

_balanced_tree(h, n) == _balance_tree_if_unbalanced(_update_height(h, n), n)

----------------------------------------------------------------------------
(* insert *)

\* insert with `>=` for `>`: an equal entry is sent down the right subtree
RECURSIVE insert_ge(_, _, _)
insert_ge(h, n, e) ==
    IF n = EMPTY_NODE
        THEN LET i == NewId(h) IN Ok(h @@ (i :> _AVLNode(e)), i)
    ELSE IF e >= h[n].entry
        THEN LET sub == insert_ge(h, h[n].right, e)
             IN  _balanced_tree([sub.h EXCEPT ![n].right = sub.r], n)
    ELSE LET sub == insert_ge(h, h[n].left, e)
         IN  _balanced_tree([sub.h EXCEPT ![n].left = sub.r], n)

RECURSIVE insert(_, _, _)
insert(h, n, e) ==
    IF n = EMPTY_NODE
        THEN LET i == NewId(h) IN Ok(h @@ (i :> _AVLNode(e)), i)
    ELSE IF e > h[n].entry
        THEN LET sub == insert(h, h[n].right, e)
             IN  _balanced_tree([sub.h EXCEPT ![n].right = sub.r], n)
    ELSE IF e < h[n].entry
        THEN LET sub == insert(h, h[n].left, e)
             IN  _balanced_tree([sub.h EXCEPT ![n].left = sub.r], n)
    ELSE _balanced_tree(h, n)

----------------------------------------------------------------------------
(* max, min, delete, clear *)

\* _AVLNode.max: the loop `while right_node` down the right links
RECURSIVE max_loop(_, _, _)
max_loop(h, max_entry, right_node) ==
    IF Truthy(right_node)
        THEN max_loop(h, h[right_node].entry, h[right_node].right)
        ELSE max_entry

\* node.max(): EMPTY_NODE has no such method
max(h, n) ==
    IF n = EMPTY_NODE THEN [st |-> "AttributeError", val |-> 0]
    ELSE [st |-> "ok", val |-> max_loop(h, h[n].entry, h[n].right)]

\* _AVLNode.min: the loop `while left_node` down the left links
RECURSIVE min_loop(_, _, _)
min_loop(h, min_entry, left_node) ==
    IF Truthy(left_node)
        THEN min_loop(h, h[left_node].entry, h[left_node].left)
        ELSE min_entry

\* node.min(): EMPTY_NODE has no such method
min(h, n) ==
    IF n = EMPTY_NODE THEN [st |-> "AttributeError", val |-> 0]
    ELSE [st |-> "ok", val |-> min_loop(h, h[n].entry, h[n].left)]

\* a delete on EMPTY_NODE that returns it instead of raising
empty_delete_silent(h, e) == Ok(h, EMPTY_NODE)

\* _EmptyAVLNode.delete
EmptyDelete(h, e) == Raise(h, "KeyError")

RECURSIVE delete(_, _, _)
\* the branch of an equal entry with the minimum of the left subtree taken
\* as the substitute
delete_here_min(h, n) ==
    IF is_leaf(h, n) THEN Ok(h, EMPTY_NODE)
    ELSE IF Truthy(h[n].left)
        THEN LET new_entry == min(h, h[n].left).val
                 h1 == [h EXCEPT ![n].entry = new_entry]
                 sub == delete(h1, h1[n].left, new_entry)
             IN  IF sub.st # "ok" THEN sub
                 ELSE _balanced_tree([sub.h EXCEPT ![n].left = sub.r], n)
    ELSE Ok(h, h[n].right)

\* the branch of an equal entry with a leaf returned instead of EMPTY_NODE
delete_here_leaf_kept(h, n) ==
    IF is_leaf(h, n) THEN Ok(h, n)
    ELSE IF Truthy(h[n].left)
        THEN LET new_entry == max(h, h[n].left).val
                 h1 == [h EXCEPT ![n].entry = new_entry]
                 sub == delete(h1, h1[n].left, new_entry)
             IN  IF sub.st # "ok" THEN sub
                 ELSE _balanced_tree([sub.h EXCEPT ![n].left = sub.r], n)
    ELSE Ok(h, h[n].right)

\* the branch of an equal entry that returns the position as the inner
\* delete left it, with no _balanced_tree
delete_here_unbalanced(h, n) ==
    IF is_leaf(h, n) THEN Ok(h, EMPTY_NODE)
    ELSE IF Truthy(h[n].left)
        THEN LET new_entry == max(h, h[n].left).val
                 h1 == [h EXCEPT ![n].entry = new_entry]
                 sub == delete(h1, h1[n].left, new_entry)
             IN  IF sub.st # "ok" THEN sub
                 ELSE Ok([sub.h EXCEPT ![n].left = sub.r], n)
    ELSE Ok(h, h[n].right)

\* _AVLNode.delete, the branch `else:` of an equal entry
delete_here(h, n) ==
    IF is_leaf(h, n) THEN Ok(h, EMPTY_NODE)
    ELSE IF Truthy(h[n].left)
        THEN LET new_entry == max(h, h[n].left).val
                 h1 == [h EXCEPT ![n].entry = new_entry]
                 sub == delete(h1, h1[n].left, new_entry)
             IN  IF sub.st # "ok" THEN sub
                 ELSE _balanced_tree([sub.h EXCEPT ![n].left = sub.r], n)
    ELSE Ok(h, h[n].right)

delete(h, n, e) ==
    IF n = EMPTY_NODE THEN EmptyDelete(h, e)
    ELSE IF e > h[n].entry
        THEN LET sub == delete(h, h[n].right, e)
             IN  IF sub.st # "ok" THEN sub
                 ELSE _balanced_tree([sub.h EXCEPT ![n].right = sub.r], n)
    ELSE IF e < h[n].entry
        THEN LET sub == delete(h, h[n].left, e)
             IN  IF sub.st # "ok" THEN sub
                 ELSE _balanced_tree([sub.h EXCEPT ![n].left = sub.r], n)
    ELSE delete_here(h, n)

RECURSIVE clear(_, _)
clear(h, n) ==
    IF n = EMPTY_NODE THEN Raise(h, "AttributeError")
    ELSE IF is_leaf(h, n) THEN Ok(h, EMPTY_NODE)
    ELSE LET l == clear(h, h[n].left)
             h1 == [l.h EXCEPT ![n].left = l.r]
             r == clear(h1, h1[n].right)
             h2 == [r.h EXCEPT ![n].right = r.r]
         IN  IF l.st # "ok" THEN l
             ELSE IF r.st # "ok" THEN r
             ELSE Ok(h2, EMPTY_NODE)

----------------------------------------------------------------------------
(* pred, succ, search, len, equality, traversal *)

\* pred that does not hand the position it leaves to the right on as the
\* candidate
RECURSIVE pred_no_thread(_, _, _, _)
pred_no_thread(h, n, p, e) ==
    IF n = EMPTY_NODE THEN [st |-> "KeyError", val |-> 0]
    ELSE IF e > h[n].entry THEN pred_no_thread(h, h[n].right, p, e)
    ELSE IF e < h[n].entry THEN pred_no_thread(h, h[n].left, p, e)
    ELSE IF Truthy(h[n].left) THEN max(h, h[n].left)
    ELSE IF Truthy(p) THEN [st |-> "ok", val |-> h[p].entry]
    ELSE [st |-> "KeyError", val |-> 0]

RECURSIVE pred(_, _, _, _)
pred(h, n, p, e) ==
    IF n = EMPTY_NODE THEN [st |-> "KeyError", val |-> 0]
    ELSE IF e > h[n].entry THEN pred(h, h[n].right, n, e)
    ELSE IF e < h[n].entry THEN pred(h, h[n].left, p, e)
    ELSE IF Truthy(h[n].left) THEN max(h, h[n].left)
    ELSE IF Truthy(p) THEN [st |-> "ok", val |-> h[p].entry]
    ELSE [st |-> "KeyError", val |-> 0]

RECURSIVE succ(_, _, _, _)
succ(h, n, s, e) ==
    IF n = EMPTY_NODE THEN [st |-> "KeyError", val |-> 0]
    ELSE IF e > h[n].entry THEN succ(h, h[n].right, s, e)
    ELSE IF e < h[n].entry THEN succ(h, h[n].left, n, e)
    ELSE IF Truthy(h[n].right) THEN min(h, h[n].right)
    ELSE IF Truthy(s) THEN [st |-> "ok", val |-> h[s].entry]
    ELSE [st |-> "KeyError", val |-> 0]

\* AVLTree._search and the `.entry` of AVLTree.search
RECURSIVE search(_, _, _)
search(h, n, e) ==
    IF ~Truthy(n) THEN [st |-> "KeyError", val |-> 0]
    ELSE IF e > h[n].entry THEN search(h, h[n].right, e)
    ELSE IF e < h[n].entry THEN search(h, h[n].left, e)
    ELSE [st |-> "ok", val |-> h[n].entry]

\* __contains__ without its try/except: the KeyError of search gets out
contains_uncaught(h, n, e) ==
    LET found == search(h, n, e)
    IN  IF found.st = "ok" THEN [st |-> "ok", val |-> 1] ELSE found

\* AVLTree.__contains__: 1 for True, 0 for False
contains(h, n, e) ==
    LET found == search(h, n, e)
    IN  IF found.st = "ok" THEN [st |-> "ok", val |-> 1]
        ELSE IF found.st = "KeyError" THEN [st |-> "ok", val |-> 0]
        ELSE found

\* _AVLNode.__len__ / _EmptyAVLNode.__len__
RECURSIVE len(_, _)
len(h, n) ==
    IF n = EMPTY_NODE THEN 0
    ELSE 1 + len(h, h[n].left) + len(h, h[n].right)

\* _AVLNode.__eq__ / _EmptyAVLNode.__eq__: "True", "False" or "AttributeError"
RECURSIVE node_eq(_, _, _)
node_eq(h, a, b) ==
    IF a = EMPTY_NODE THEN (IF b = EMPTY_NODE THEN "True" ELSE "False")
    ELSE IF b = EMPTY_NODE THEN "AttributeError"
    ELSE IF h[a].entry # h[b].entry THEN "False"
    ELSE LET l == node_eq(h, h[a].left, h[b].left)
         IN  IF l # "True" THEN l
             ELSE node_eq(h, h[a].right, h[b].right)

\* AVLTree.__eq__ between two AVLTree handles
tree_eq(h, a, b) ==
    IF Height(h, a) = Height(h, b) /\ len(h, a) = len(h, b)
        THEN node_eq(h, a, b)
        ELSE "False"

\* AVLTree._inorder
RECURSIVE _inorder(_, _)
_inorder(h, n) ==
    IF Truthy(n)
        THEN _inorder(h, h[n].left) \o <<h[n].entry>> \o _inorder(h, h[n].right)
        ELSE <<>>

RECURSIVE _preorder(_, _)
_preorder(h, n) ==
    IF Truthy(n)
        THEN <<h[n].entry>> \o _preorder(h, h[n].left) \o _preorder(h, h[n].right)
        ELSE <<>>

RECURSIVE _postorder(_, _)
_postorder(h, n) ==
    IF Truthy(n)
        THEN _postorder(h, h[n].left) \o _postorder(h, h[n].right) \o <<h[n].entry>>
        ELSE <<>>

RECURSIVE bfs_loop(_, _)
\* the loop of _bfs with the children put at the head of q, left first
bfs_loop_lifo(h, q) ==
    IF q = <<>> THEN <<>>
    ELSE LET node == Head(q)
         IN  IF ~Truthy(node) THEN bfs_loop(h, Tail(q))
             ELSE <<h[node].entry>>
                  \o bfs_loop(h, <<h[node].left, h[node].right>> \o Tail(q))

\* _bfs: `while q:` over the deque q, EMPTY_NODE children included and skipped
bfs_loop(h, q) ==
    IF q = <<>> THEN <<>>
    ELSE LET node == Head(q)
         IN  IF ~Truthy(node) THEN bfs_loop(h, Tail(q))
             ELSE <<h[node].entry>>
                  \o bfs_loop(h, Tail(q) \o <<h[node].left, h[node].right>>)

_bfs(h, n) == IF Truthy(n) THEN bfs_loop(h, <<n>>) ELSE <<>>

\* AVLTree.traverse, its generator run to the end
traverse(h, n, order) ==
    IF order = "preorder" THEN _preorder(h, n)
    ELSE IF order = "postorder" THEN _postorder(h, n)
    ELSE IF order = "bfs" THEN _bfs(h, n)
    ELSE _inorder(h, n)

\* the entries of a tree handed over in ascending order
tree_args_inorder(h, n) == traverse(h, n, "inorder")

\* _init_tree, `args = args.traverse('bfs')` for an AVLTree argument
tree_args(h, n) == traverse(h, n, "bfs")

\* _init_tree, `for entry in args: self.insert(entry)` on the root r
RECURSIVE init_loop(_, _, _)
init_loop(h, r, args) ==
    IF args = <<>> THEN Ok(h, r)
    ELSE LET out == insert(h, r, Head(args))
         IN  init_loop(out.h, out.r, Tail(args))

_init_tree(h, args) == init_loop(h, EMPTY_NODE, args)

\* a deep copy that hands back the object it was given
deepcopy_shared(h, n) == Ok(h, n)

\* copy.deepcopy of a node, as AVLTree.__deepcopy__ asks for the root: a new
\* object with deep copies of entry, left, right and height.  The copy of
\* EMPTY_NODE is a new _EmptyAVLNode; it has no state that is ever written,
\* and bool(), height, isinstance-based __eq__ and every method treat it as
\* they treat EMPTY_NODE, so it is not told apart from identity 0.
RECURSIVE deepcopy(_, _)
deepcopy(h, n) ==
    IF n = EMPTY_NODE THEN Ok(h, EMPTY_NODE)
    ELSE LET i == NewId(h)
             l == deepcopy(h @@ (i :> h[n]), h[n].left)
             r == deepcopy(l.h, h[n].right)
         IN  Ok([r.h EXCEPT ![i] = [entry |-> h[n].entry, left |-> l.r,
                                    right |-> r.r, height |-> h[n].height]], i)

----------------------------------------------------------------------------
(* Object identity.  The program never looks at the identity of a node (no *)
(* `is`, no id()), and an object that no handle reaches any more is freed  *)
(* by reference counting.  After every call the heap is therefore kept up  *)
(* to renaming: the live objects are numbered 1, 2, ... in the order a     *)
(* pre-order walk from t.root and then from u.root first meets them.       *)

RECURSIVE PreOrd(_, _)
PreOrd(h, n) ==
    IF n = EMPTY_NODE THEN <<>>
    ELSE <<n>> \o PreOrd(h, h[n].left) \o PreOrd(h, h[n].right)

RECURSIVE Dedup(_)
Dedup(s) ==
    IF s = <<>> THEN <<>>
    ELSE LET d == Dedup(SubSeq(s, 1, Len(s) - 1))
             x == s[Len(s)]
         IN  IF \E i \in 1..Len(d) : d[i] = x THEN d ELSE Append(d, x)

Collect(h, rt) ==
    LET live == Dedup(PreOrd(h, rt["t"]) \o PreOrd(h, rt["u"]))
        name(n) == IF n = EMPTY_NODE THEN EMPTY_NODE
                   ELSE CHOOSE i \in 1..Len(live) : live[i] = n
    IN  [heap |-> [i \in 1..Len(live) |->
                      [entry |-> h[live[i]].entry,
                       left |-> name(h[live[i]].left),
                       right |-> name(h[live[i]].right),
                       height |-> h[live[i]].height]],
         root |-> [x \in Handles |-> name(rt[x])]]

----------------------------------------------------------------------------
(* AVLTree: the public calls *)

Res(op, x, arg, st, val) ==
    [op |-> op, h |-> x, y |-> x, arg |-> arg, st |-> st, val |-> val]

\* AVLTree(): _init_tree with no argument
Init ==
    /\ heap = <<>>
    /\ root = [x \in Handles |-> EMPTY_NODE]
    /\ S = {}
    /\ result = Res("init", "t", 0, "ok", 0)

\* AVLTree.insert
Insert(x, e) ==
    LET out == insert(heap, root[x], e)
        rt == [root EXCEPT ![x] = out.r]
        live == Collect(out.h, rt)
    IN  /\ root' = live.root
        /\ heap' = live.heap
        /\ S' = IF x = "t" THEN S \cup {e} ELSE S
        /\ result' = Res("insert", x, e, "ok", 0)

\* AVLTree.insert while fewer than cap objects are alive
InsertCapped(x, e, cap) == Cardinality(DOMAIN heap) < cap /\ Insert(x, e)

\* AVLTree.delete
Delete(x, e) ==
    LET out == delete(heap, root[x], e)
        rt == IF out.st = "ok" THEN [root EXCEPT ![x] = out.r] ELSE root
        live == Collect(out.h, rt)
    IN  /\ root' = live.root
        /\ heap' = live.heap
        /\ S' = IF x = "t" /\ out.st = "ok" THEN S \ {e} ELSE S
        /\ result' = Res("delete", x, e, out.st, 0)

\* a call that reads the tree and changes nothing
Query(op, x, arg, out) ==
    /\ result' = Res(op, x, arg, out.st, out.val)
    /\ UNCHANGED <<heap, root, S>>

\* AVLTree.search
Search(x, e) == Query("search", x, e, search(heap, root[x], e))

\* e in T
Contains(x, e) == Query("contains", x, e, contains(heap, root[x], e))

\* AVLTree.pred
Pred(x, e) == Query("pred", x, e, pred(heap, root[x], EMPTY_NODE, e))

\* AVLTree.succ
Succ(x, e) == Query("succ", x, e, succ(heap, root[x], EMPTY_NODE, e))

\* AVLTree.max
Max(x) == Query("max", x, 0, max(heap, root[x]))

\* AVLTree.min
Min(x) == Query("min", x, 0, min(heap, root[x]))

\* AVLTree.clear
Clear(x) ==
    LET out == clear(heap, root[x])
        rt == IF out.st = "ok" THEN [root EXCEPT ![x] = out.r] ELSE root
        live == Collect(out.h, rt)
    IN  /\ root' = live.root
        /\ heap' = live.heap
        /\ S' = IF x = "t" /\ out.st = "ok" THEN {} ELSE S
        /\ result' = Res("clear", x, 0, out.st, 0)

\* t1 == t2
Eq(x, y) ==
    LET b == tree_eq(heap, root[x], root[y])
    IN  /\ result' = [Res("eq", x, 0, IF b = "AttributeError" THEN b ELSE "ok",
                               IF b = "True" THEN 1 ELSE 0) EXCEPT !.y = y]
        /\ UNCHANGED <<heap, root, S>>

\* u = copy(t): AVLTree.__copy__ hands t's __dict__, root included, to the new handle
Copy ==
    LET rt == [root EXCEPT !["u"] = root["t"]]
        live == Collect(heap, rt)
    IN  /\ root' = live.root
        /\ heap' = live.heap
        /\ S' = S
        /\ result' = Res("copy", "u", 0, "ok", 0)

\* u = deepcopy(t): AVLTree.__deepcopy__, while the copy fits among MaxNodes
\* live objects
DeepCopy ==
    /\ 2 * len(heap, root["t"]) <= MaxNodes
    /\ LET out == deepcopy(heap, root["t"])
           rt == [root EXCEPT !["u"] = out.r]
           live == Collect(out.h, rt)
       IN  /\ root' = live.root
           /\ heap' = live.heap
           /\ S' = S
           /\ result' = Res("deepcopy", "u", 0, "ok", 0)

\* list(T.traverse(order))
Traverse(x, order) ==
    Query("traverse", x, order, [st |-> "ok", val |-> traverse(heap, root[x], order)])

\* u = AVLTree(t)
Construct ==
    LET out == _init_tree(heap, tree_args(heap, root["t"]))
        live == Collect(out.h, [root EXCEPT !["u"] = out.r])
    IN  /\ root' = live.root
        /\ heap' = live.heap
        /\ S' = S
        /\ result' = Res("construct", "u", 0, "ok", 0)

\* AVLTree(): the handles are bound to new empty trees
Renew ==
    /\ heap' = <<>>
    /\ root' = [x \in Handles |-> EMPTY_NODE]
    /\ S' = {}
    /\ result' = Res("init", "t", 0, "ok", 0)

\* _AVLNode._balanced_tree on a new position _AVLNode(Pivot) that is given
\* t.root as left and u.root as right, their heights at most 2 apart; the
\* position returned becomes u.root and t is bound to a new empty tree
Balance ==
    /\ Height(heap, root["t"]) - Height(heap, root["u"]) \in -2..2
    /\ LET i == NewId(heap)
           joined == heap @@ (i :> [_AVLNode(Pivot) EXCEPT !.left = root["t"],
                                                           !.right = root["u"]])
           out == _balanced_tree(joined, i)
           live == Collect(out.h, [root EXCEPT !["t"] = EMPTY_NODE, !["u"] = out.r])
       IN  /\ root' = live.root
           /\ heap' = live.heap
           /\ S' = {}
           /\ result' = Res("balance", "u", Pivot, "ok", 0)

\* the calls on a single handle that the invariants speak of
NextT ==
    \/ \E e \in Entries : Insert("t", e)
    \/ \E e \in Entries : Delete("t", e)
    \/ \E e \in Entries : Search("t", e)
    \/ \E e \in Entries : Contains("t", e)
    \/ \E e \in Entries : Pred("t", e)
    \/ \E e \in Entries : Succ("t", e)
    \/ Max("t")
    \/ Min("t")

Next == NextT

Spec == Init /\ [][Next]_vars

\* the same calls and clear()
NextClear == NextT \/ Clear("t")

SpecClear == Init /\ [][NextClear]_vars

\* two trees built independently of each other, and compared
NextTwo ==
    \/ \E x \in Handles, e \in Entries2 : InsertCapped(x, e, MaxNodes)
    \/ \E x \in Handles, e \in Entries2 : Delete(x, e)
    \/ \E x, y \in Handles : Eq(x, y)

SpecTwo == Init /\ [][NextTwo]_vars

\* a tree t and its shallow copy u = copy(t), both in use, one call at a time
NextCopy ==
    \/ Copy
    \/ \E x \in Handles, e \in EntriesCopy : InsertCapped(x, e, MaxNodesCopy)
    \/ \E x \in Handles, e \in EntriesCopy : Delete(x, e)

SpecCopy == Init /\ [][NextCopy]_vars

\* a tree t and its deep copy u = deepcopy(t), both in use
NextDeep ==
    \/ DeepCopy
    \/ \E x \in Handles, e \in Entries2 : InsertCapped(x, e, MaxNodes)
    \/ \E x \in Handles, e \in Entries2 : Delete(x, e)
    \/ \E x \in Handles : Clear(x)

SpecDeep == Init /\ [][NextDeep]_vars

\* t is built below Pivot and u above it, then _balanced_tree is applied to
\* the position that joins them, and the handles start again
NextBal ==
    \/ \E e \in Entries2 : result.op # "balance" /\ Insert("t", e)
    \/ \E e \in Entries2 : result.op # "balance" /\ Delete("t", e)
    \/ \E e \in EntriesAbove : result.op # "balance" /\ Insert("u", e)
    \/ \E e \in EntriesAbove : result.op # "balance" /\ Delete("u", e)
    \/ result.op # "balance" /\ Balance
    \/ result.op = "balance" /\ Renew

SpecBal == Init /\ [][NextBal]_vars

\* a single tree under insert and delete, traversed in every order
NextTrav ==
    \/ \E e \in Entries : Insert("t", e)
    \/ \E e \in Entries : Delete("t", e)
    \/ \E order \in Orders : Traverse("t", order)

SpecTrav == Init /\ [][NextTrav]_vars

\* a tree t under insert and delete, u = AVLTree(t) built from it, and the
\* handles started again
NextCtor ==
    \/ \E e \in Entries : result.op # "construct" /\ Insert("t", e)
    \/ \E e \in Entries : result.op # "construct" /\ Delete("t", e)
    \/ result.op # "construct" /\ Construct
    \/ result.op = "construct" /\ Renew

SpecCtor == Init /\ [][NextCtor]_vars

----------------------------------------------------------------------------
(* What the properties speak of *)

\* the Filled positions reachable from position n
RECURSIVE Positions(_, _)
Positions(h, n) ==
    IF n = EMPTY_NODE THEN {}
    ELSE {n} \cup Positions(h, h[n].left) \cup Positions(h, h[n].right)

\* the entries held under position n
Contents(h, n) == {h[m].entry : m \in Positions(h, n)}

\* the height of the tree under n, counted and not read from the cache
RECURSIVE TrueHeight(_, _)
TrueHeight(h, n) ==
    IF n = EMPTY_NODE THEN 0
    ELSE 1 + Max2(TrueHeight(h, h[n].left), TrueHeight(h, h[n].right))

\* the elements of a finite set of integers in ascending order
RECURSIVE Ascending(_)
Ascending(set) ==
    IF set = {} THEN <<>>
    ELSE LET least == CHOOSE a \in set : \A b \in set : a <= b
         IN  <<least>> \o Ascending(set \ {least})

AVLBalanced(h, n) ==
    \A m \in Positions(h, n) : balance_factor(h, m) \in {-1, 0, 1}

BSTOrdered(h, n) ==
    \A m \in Positions(h, n) :
        /\ \A l \in Positions(h, h[m].left) : h[l].entry < h[m].entry
        /\ \A r \in Positions(h, h[m].right) : h[r].entry > h[m].entry

HeightsCached(h, n) ==
    \A m \in Positions(h, n) :
        h[m].height = 1 + Max2(Height(h, h[m].left), Height(h, h[m].right))

t == root["t"]
u == root["u"]

----------------------------------------------------------------------------
(* Properties of a single tree under insert and delete (Spec) *)

\* C1: after every insert and every delete, failed ones included, every
\* Filled position reachable from the root has a balance factor
\* left.height - right.height in {-1, 0, 1}.
C1_AVLBalance == AVLBalanced(heap, t)

\* a successful delete has left four entries in a tree whose root leans to
\* one side
C1_Witness ==
    /\ result.op = "delete" /\ result.st = "ok"
    /\ len(heap, t) = 4
    /\ balance_factor(heap, t) # 0

\* C2: after any sequence of inserts and deletes, at every reachable Filled
\* position all entries of the left subtree are strictly less than its entry
\* and all entries of the right subtree strictly greater; no entry is held
\* twice.
C2_BSTOrder ==
    /\ BSTOrdered(heap, t)
    /\ Cardinality(Positions(heap, t)) = Cardinality(Contents(heap, t))

\* a delete by predecessor substitution: of a tree of three entries the
\* root's entry was deleted, and the root now holds the former left entry
C2_Witness ==
    /\ result.op = "delete" /\ result.st = "ok"
    /\ len(heap, t) = 2
    /\ heap[t].left = EMPTY_NODE /\ heap[t].right # EMPTY_NODE
    /\ heap[t].entry < result.arg
    /\ result.arg < heap[heap[t].right].entry

\* C3: after any sequence of inserts and deletes the cached height of every
\* reachable Filled position is 1 + max(left.height, right.height), so that
\* tree.height is the true height of the tree, 0 for the empty tree.
C3_HeightCorrect ==
    /\ HeightsCached(heap, t)
    /\ Height(heap, t) = TrueHeight(heap, t)

\* an insert or delete has left a tree of height 3 that holds every entry
C3_Witness ==
    /\ result.op \in {"insert", "delete"}
    /\ Height(heap, t) = 3
    /\ len(heap, t) = MaxEntry

\* C4: the in-order traversal of the tree is the ascending sequence of the
\* elements of the set S kept beside it, and len(tree) is the size of S.
C4_OrderedSet ==
    /\ _inorder(heap, t) = Ascending(S)
    /\ len(heap, t) = Cardinality(S)

\* a duplicate insert: the inserted entry sits at a position below the root
\* with exactly one child, where no newly made node can be
C4_Witness ==
    /\ result.op = "insert"
    /\ \E m \in Positions(heap, t) :
          /\ m # t /\ heap[m].entry = result.arg
          /\ (heap[m].left = EMPTY_NODE) # (heap[m].right = EMPTY_NODE)

\* C10: delete(e) of an entry e the tree does not hold, the empty tree
\* included, fails with KeyError and leaves shape, entries, cached heights
\* and length as they were.
C10_DeleteAbsent ==
    [][\A e \in Entries :
         (result'.op = "delete" /\ result'.arg = e /\ e \notin Contents(heap, t))
             => /\ result'.st = "KeyError"
                /\ heap' = heap /\ root' = root
                /\ len(heap', t') = len(heap, t)]_vars

\* a delete of an absent entry has just failed on a tree of three entries
C10_Witness ==
    /\ result.op = "delete" /\ result.st = "KeyError"
    /\ len(heap, t) = 3
    /\ result.arg \notin Contents(heap, t)

----------------------------------------------------------------------------
(* clear() (SpecClear) *)

\* C5: clear() on any reachable tree, the empty tree and trees with a node of
\* exactly one child included, completes without error and leaves the tree
\* with length 0, height 0 and nothing to traverse.
C5_ClearEmpties ==
    result.op = "clear" =>
        /\ result.st = "ok"
        /\ t = EMPTY_NODE
        /\ len(heap, t) = 0 /\ Height(heap, t) = 0
        /\ _inorder(heap, t) = <<>>

\* C6: every public call either succeeds and leaves BST order, AVL balance
\* and the cached heights intact, or fails and leaves the tree exactly as it
\* was: same shape, same entries, same cached heights.
C6_FailureAtomic ==
    [][/\ result'.st # "ok" => (heap' = heap /\ root' = root)
       /\ result'.st = "ok" =>
             /\ BSTOrdered(heap', t')
             /\ AVLBalanced(heap', t')
             /\ HeightsCached(heap', t')]_vars

----------------------------------------------------------------------------
(* The errors raised (Spec) *)

\* search, delete, pred and succ have nothing to return for an entry the
\* tree does not hold, pred for the least entry, succ for the greatest, min
\* and max for the empty tree
NoApplicable(op, arg, h, n) ==
    \/ op \in {"search", "delete"} /\ arg \notin Contents(h, n)
    \/ op = "pred" /\ ~\E e \in Contents(h, n) : e < arg /\ arg \in Contents(h, n)
    \/ op = "succ" /\ ~\E e \in Contents(h, n) : e > arg /\ arg \in Contents(h, n)
    \/ op \in {"min", "max"} /\ n = EMPTY_NODE

\* C7: whenever search, delete, pred, succ, min or max has no applicable
\* element, the empty tree included, the call signals KeyError and no other
\* kind of error.
C7_NotFound ==
    [][(/\ result'.op \in {"search", "delete", "pred", "succ", "min", "max"}
        /\ NoApplicable(result'.op, result'.arg, heap, t))
           => result'.st = "KeyError"]_vars

----------------------------------------------------------------------------
(* Equality of two trees (SpecTwo) *)

\* both Empty, or both Filled with equal entries and equal left and right
\* subtrees
RECURSIVE StructEqual(_, _, _)
StructEqual(h, a, b) ==
    IF a = EMPTY_NODE \/ b = EMPTY_NODE THEN a = b
    ELSE /\ h[a].entry = h[b].entry
         /\ StructEqual(h, h[a].left, h[b].left)
         /\ StructEqual(h, h[a].right, h[b].right)

\* C8: t1 == t2, in either order of the operands, returns a boolean without
\* raising, true iff the roots are structurally equal.
C8_EqualityTotal ==
    result.op = "eq" =>
        /\ result.st = "ok"
        /\ (result.val = 1) <=> StructEqual(heap, root[result.h], root[result.y])

----------------------------------------------------------------------------
(* A tree and its shallow copy (SpecCopy) *)

\* C9: after u = copy(t), whatever inserts and deletes are applied to t and
\* to u one after the other, both handles keep BST order, AVL balance and
\* correct cached heights at every position reachable from their own root.
C9_CopyNoHazard ==
    \A x \in Handles :
        /\ BSTOrdered(heap, root[x])
        /\ AVLBalanced(heap, root[x])
        /\ HeightsCached(heap, root[x])

----------------------------------------------------------------------------
(* Delete, insert, order queries and membership on a single tree (Spec) *)

\* C11: after a successful delete(e) the tree no longer contains e
\* (contains(e) is false, search(e) fails), every other entry is still
\* contained, and a delete(e) that follows at once fails with KeyError.
C11_DeleteThenAbsent ==
    [][(result'.op = "delete" /\ result'.st = "ok") =>
          /\ contains(heap', t', result'.arg) = [st |-> "ok", val |-> 0]
          /\ search(heap', t', result'.arg).st = "KeyError"
          /\ \A e \in Contents(heap, t) \ {result'.arg} :
                /\ contains(heap', t', e) = [st |-> "ok", val |-> 1]
                /\ search(heap', t', e) = [st |-> "ok", val |-> e]
          /\ delete(heap', t', result'.arg).st = "KeyError"]_vars

\* a successful delete has left three entries, and the deleted one lay
\* between two of them
C11_Witness ==
    /\ result.op = "delete" /\ result.st = "ok"
    /\ len(heap, t) = 3
    /\ \E a, b \in Contents(heap, t) : a < result.arg /\ result.arg < b

\* C12: insert(e) of an entry the tree already holds leaves length, height,
\* in-order sequence and the whole shape as they were: no rotation, no
\* overwritten entry.
C12_IdempotentInsert ==
    [][(result'.op = "insert" /\ result'.arg \in Contents(heap, t)) =>
          /\ heap' = heap /\ root' = root
          /\ len(heap', t') = len(heap, t)
          /\ Height(heap', t') = Height(heap, t)
          /\ _inorder(heap', t') = _inorder(heap, t)]_vars

\* the entry at the root of a tree of height 3 has been inserted again (a
\* newly made node is a leaf or, after a double rotation, of height 2)
C12_Witness ==
    /\ result.op = "insert"
    /\ Height(heap, t) = 3
    /\ heap[t].entry = result.arg

\* the least and the greatest element of a non-empty set of entries
Least(set) == CHOOSE a \in set : \A b \in set : a <= b
Greatest(set) == CHOOSE a \in set : \A b \in set : a >= b

\* C13: on a non-empty tree with entry set S, min() is the least and max()
\* the greatest element of S; pred(e) of an e in S that is not the least is
\* the greatest element of S below e, succ(e) of an e in S that is not the
\* greatest is the least element of S above e; pred and succ of an entry not
\* in S fail.
C13_OrderQueries ==
    LET C == Contents(heap, t)
        below == {a \in C : a < result.arg}
        above == {a \in C : a > result.arg}
    IN  /\ (result.op = "min" /\ C # {}) =>
              (result.st = "ok" /\ result.val = Least(C))
        /\ (result.op = "max" /\ C # {}) =>
              (result.st = "ok" /\ result.val = Greatest(C))
        /\ (result.op = "pred" /\ result.arg \in C /\ below # {}) =>
              (result.st = "ok" /\ result.val = Greatest(below))
        /\ (result.op = "succ" /\ result.arg \in C /\ above # {}) =>
              (result.st = "ok" /\ result.val = Least(above))
        /\ (result.op \in {"pred", "succ"} /\ result.arg \notin C) =>
              result.st # "ok"
        /\ C = S

\* pred(e) was answered from the threaded candidate: e sits at a position
\* without a left subtree, below the root
C13_Witness ==
    /\ result.op = "pred" /\ result.st = "ok"
    /\ \E m \in Positions(heap, t) :
          /\ m # t /\ heap[m].entry = result.arg
          /\ heap[m].left = EMPTY_NODE

\* C14: contains(e) never raises and is true iff e is in S; search(e)
\* returns the stored entry equal to e when e is in S and fails with
\* KeyError when it is not, the empty tree included.
C14_Membership ==
    /\ result.op = "contains" =>
          (result.st = "ok" /\ (result.val = 1 <=> result.arg \in S)
                            /\ result.val \in {0, 1})
    /\ result.op = "search" =>
          IF result.arg \in S
              THEN result.st = "ok" /\ result.val = result.arg
              ELSE result.st = "KeyError"

\* contains(e) has answered False on a tree of three entries
C14_Witness ==
    /\ result.op = "contains" /\ result.val = 0
    /\ Cardinality(S) = 3

----------------------------------------------------------------------------
(* A tree and its deep copy (SpecDeep) *)

\* shape, entries and cached heights of the tree under n
RECURSIVE Shape(_, _)
Shape(h, n) ==
    IF n = EMPTY_NODE THEN <<>>
    ELSE <<h[n].entry, h[n].height, Shape(h, h[n].left), Shape(h, h[n].right)>>

\* C15: u = deepcopy(t) is equal to t (same shape, entries and heights) and
\* shares no position with t; afterwards an insert, delete or clear on either
\* tree leaves the shape, entries and heights of the other as they were.
C15_DeepCopyIndependent ==
    [][/\ result'.op = "deepcopy" =>
             /\ tree_eq(heap', t', u') = "True" /\ tree_eq(heap', u', t') = "True"
             /\ Shape(heap', u') = Shape(heap', t')
             /\ Shape(heap', t') = Shape(heap, t)
             /\ Positions(heap', t') \cap Positions(heap', u') = {}
       /\ result'.op \in {"insert", "delete", "clear"} =>
             IF result'.h = "u" THEN Shape(heap', t') = Shape(heap, t)
             ELSE Shape(heap', u') = Shape(heap, u)]_vars

\* a tree of three entries has just been deep-copied
C15_Witness ==
    /\ result.op = "deepcopy"
    /\ len(heap, t) = 3 /\ len(heap, u) = 3
    /\ Cardinality(DOMAIN heap) = 6

----------------------------------------------------------------------------
(* The rebalancing step on its own (SpecBal) *)

\* shape and entries of the tree under n, cached heights left out
RECURSIVE Struct(_, _)
Struct(h, n) ==
    IF n = EMPTY_NODE THEN <<>>
    ELSE <<h[n].entry, Struct(h, h[n].left), Struct(h, h[n].right)>>

\* left.height - right.height, counted
TrueBalance(h, n) ==
    IF n = EMPTY_NODE THEN 0
    ELSE TrueHeight(h, h[n].left) - TrueHeight(h, h[n].right)

\* the tree the rotation rule names for a position with entry e over the
\* trees L and R, whose counted balance is b, L's is lb and R's is rb
Rotated(e, L, R, b, lb, rb) ==
    IF b = 2 /\ lb = -1 THEN <<L[3][1], <<L[1], L[2], L[3][2]>>, <<e, L[3][3], R>>>>
    ELSE IF b = -2 /\ rb = 1 THEN <<R[2][1], <<e, L, R[2][2]>>, <<R[1], R[2][3], R[3]>>>>
    ELSE IF b = -2 THEN <<R[1], <<e, L, R[2]>>, R[3]>>
    ELSE IF b = 2 THEN <<L[1], L[2], <<e, L[3], R>>>>
    ELSE <<e, L, R>>

\* C16: _balanced_tree, applied to a position over two AVL trees with correct
\* cached heights at most 2 apart, returns a position whose tree is AVL
\* balanced with correct cached heights and the same in-order sequence, and
\* that is the left-right rotation for balance +2 over a left child of -1,
\* the right-left rotation for -2 over a right child of +1, the single left
\* rotation for any other -2, the single right rotation for any other +2,
\* and the position unchanged otherwise.
C16_RebalancingStep ==
    [][(/\ result'.op = "balance"
        /\ AVLBalanced(heap, t) /\ HeightsCached(heap, t)
        /\ AVLBalanced(heap, u) /\ HeightsCached(heap, u)
        /\ TrueHeight(heap, t) - TrueHeight(heap, u) \in -2..2)
       => /\ AVLBalanced(heap', u')
          /\ HeightsCached(heap', u')
          /\ _inorder(heap', u') = _inorder(heap, t) \o <<Pivot>> \o _inorder(heap, u)
          /\ Struct(heap', u') =
                Rotated(Pivot, Struct(heap, t), Struct(heap, u),
                        TrueHeight(heap, t) - TrueHeight(heap, u),
                        TrueBalance(heap, t), TrueBalance(heap, u))]_vars

\* the step has just made a single rotation at a position of balance 2 whose
\* left child had balance 0: the new root leans right over the old position
C16_Witness ==
    /\ result.op = "balance"
    /\ balance_factor(heap, u) = -1
    /\ heap[u].entry < Pivot
    /\ heap[heap[u].right].entry = Pivot
    /\ balance_factor(heap, heap[u].right) = 1

----------------------------------------------------------------------------
(* Delete at the position that holds the entry (Spec) *)

\* the position under n that holds e
Holder(h, n, e) == CHOOSE m \in Positions(h, n) : h[m].entry = e

\* C17: a successful delete(e) meets e at one position n, and there: a leaf
\* is replaced by EMPTY_NODE; with a non-empty left subtree the entry of n
\* becomes the maximum of the left subtree and that maximum is removed from
\* the left subtree, which never fails; with an empty left and a non-empty
\* right subtree the right child is returned as it is.  In every case the
\* returned subtree holds the previous entries but e and is AVL balanced
\* with correct cached heights.
C17_DeleteAtMatch ==
    [][(result'.op = "delete" /\ result'.st = "ok") =>
          LET n == Holder(heap, t, result'.arg)
              left == heap[n].left
              right == heap[n].right
              out == delete_here(heap, n)
          IN  /\ out.st = "ok"
              /\ (left = EMPTY_NODE /\ right = EMPTY_NODE) => out.r = EMPTY_NODE
              /\ left # EMPTY_NODE =>
                    /\ out.h[n].entry = Greatest(Contents(heap, left))
                    /\ Contents(out.h, out.h[n].left) =
                          Contents(heap, left) \ {Greatest(Contents(heap, left))}
                    /\ len(out.h, out.h[n].left) = len(heap, left) - 1
              /\ (left = EMPTY_NODE /\ right # EMPTY_NODE) =>
                    (out.r = right /\ out.h = heap)
              /\ Contents(out.h, out.r) = Contents(heap, n) \ {result'.arg}
              /\ len(out.h, out.r) = len(heap, n) - 1
              /\ AVLBalanced(out.h, out.r) /\ HeightsCached(out.h, out.r)
              /\ BSTOrdered(out.h, out.r)
              /\ n = t => Shape(heap', t') = Shape(out.h, out.r)]_vars

\* a successful delete has left four entries in a tree of height 3 whose
\* root holds the entry next below the deleted one
C17_Witness ==
    /\ result.op = "delete" /\ result.st = "ok"
    /\ len(heap, t) = 4 /\ Height(heap, t) = 3
    /\ heap[t].entry < result.arg
    /\ \A e \in Contents(heap, t) : ~(heap[t].entry < e /\ e < result.arg)
    /\ \E e \in Contents(heap, t) : e > result.arg

----------------------------------------------------------------------------
(* Traversals (SpecTrav) *)

\* the place of entry e in the sequence seq
IndexOf(seq, e) == CHOOSE i \in 1..Len(seq) : seq[i] = e

\* the number of steps from position n down to position m
RECURSIVE Depth(_, _, _)
Depth(h, n, m) ==
    IF n = m THEN 0
    ELSE IF m \in Positions(h, h[n].left) THEN 1 + Depth(h, h[n].left, m)
    ELSE 1 + Depth(h, h[n].right, m)

\* C18: every traversal yields each entry of the tree exactly once;
\* 'preorder' yields the entry of a position before its whole left subtree
\* and that before its whole right subtree, 'postorder' the left subtree,
\* the right subtree and then the entry, 'bfs' the shallower position first
\* and left to right within a level, and 'inorder' or a selector traverse
\* does not know the left subtree, the entry, then the right subtree.
C18_TraversalOrders ==
    result.op = "traverse" =>
        LET seq == result.val
            at(m) == IndexOf(seq, heap[m].entry)
            all == Positions(heap, t)
            lefts(m) == Positions(heap, heap[m].left)
            rights(m) == Positions(heap, heap[m].right)
        IN  /\ result.st = "ok"
            /\ Len(seq) = Cardinality(all)
            /\ \A m \in all : \E i \in 1..Len(seq) :
                  /\ seq[i] = heap[m].entry
                  /\ \A j \in 1..Len(seq) : seq[j] = heap[m].entry => j = i
            /\ result.arg # "bfs" =>
                  \A m \in all : \A l \in lefts(m) : \A r \in rights(m) : at(l) < at(r)
            /\ result.arg = "preorder" =>
                  \A m \in all : \A c \in lefts(m) \cup rights(m) : at(m) < at(c)
            /\ result.arg = "postorder" =>
                  \A m \in all : \A c \in lefts(m) \cup rights(m) : at(c) < at(m)
            /\ result.arg = "bfs" =>
                  \A a, b \in all :
                     /\ Depth(heap, t, a) < Depth(heap, t, b) => at(a) < at(b)
                     /\ (Depth(heap, t, a) = Depth(heap, t, b)
                            /\ heap[a].entry < heap[b].entry) => at(a) < at(b)
            /\ result.arg \notin {"preorder", "postorder", "bfs"} =>
                  /\ \A m \in all : \A l \in lefts(m) : at(l) < at(m)
                  /\ \A m \in all : \A r \in rights(m) : at(m) < at(r)
                  /\ seq = Ascending(S)

\* bfs has just walked a tree of height 3 whose left child has a left child
\* and whose root has a right child: the right child comes before its nephew
C18_Witness ==
    /\ result.op = "traverse" /\ result.arg = "bfs"
    /\ Height(heap, t) = 3
    /\ heap[t].right # EMPTY_NODE
    /\ heap[t].left # EMPTY_NODE
    /\ heap[heap[t].left].left # EMPTY_NODE
    /\ IndexOf(result.val, heap[heap[t].right].entry)
          < IndexOf(result.val, heap[heap[heap[t].left].left].entry)

----------------------------------------------------------------------------
(* Construction from another tree (SpecCtor) *)

\* e put into the search tree T = <<entry, left, right>> with no rebalancing
RECURSIVE PlainInsert(_, _)
PlainInsert(T, e) ==
    IF T = <<>> THEN <<e, <<>>, <<>>>>
    ELSE IF e < T[1] THEN <<T[1], PlainInsert(T[2], e), T[3]>>
    ELSE IF e > T[1] THEN <<T[1], T[2], PlainInsert(T[3], e)>>
    ELSE T

RECURSIVE PlainBuild(_)
PlainBuild(seq) ==
    IF seq = <<>> THEN <<>>
    ELSE PlainInsert(PlainBuild(SubSeq(seq, 1, Len(seq) - 1)), seq[Len(seq)])

\* C19: u = AVLTree(t) inserts t's entries in breadth-first order; no insert
\* of that run rotates (after each one the tree is what plain search-tree
\* insertion gives), u has the shape, entries and heights of t, u == t and
\* t == u hold, both have the same breadth-first sequence, and t is as it was.
C19_CopyConstruction ==
    [][result'.op = "construct" =>
          LET args == tree_args(heap, t)
          IN  /\ \A k \in 0..Len(args) :
                    LET out == _init_tree(heap, SubSeq(args, 1, k))
                    IN  Struct(out.h, out.r) = PlainBuild(SubSeq(args, 1, k))
              /\ Shape(heap', u') = Shape(heap, t)
              /\ Shape(heap', t') = Shape(heap, t)
              /\ tree_eq(heap', u', t') = "True"
              /\ tree_eq(heap', t', u') = "True"
              /\ _bfs(heap', u') = _bfs(heap, t)
              /\ Positions(heap', u') \cap Positions(heap', t') = {}]_vars

\* a tree of height 3 with a single entry on its lowest level, to the left
\* of the root, has just been rebuilt
C19_Witness ==
    /\ result.op = "construct"
    /\ Height(heap, u) = 3 /\ len(heap, u) = 4
    /\ Height(heap, heap[u].left) = 2
    /\ Shape(heap, u) = Shape(heap, t)

----------------------------------------------------------------------------
(* Heights along the path of an insert or a delete (Spec) *)

\* the positions _AVLNode.insert(e) is called on, from n down
RECURSIVE InsertCalls(_, _, _)
InsertCalls(h, n, e) ==
    IF n = EMPTY_NODE THEN {}
    ELSE {n} \cup (IF e > h[n].entry THEN InsertCalls(h, h[n].right, e)
                   ELSE IF e < h[n].entry THEN InsertCalls(h, h[n].left, e)
                   ELSE {})

\* the calls <<position, entry>> of _AVLNode.delete that delete(e) on n
\* makes, the inner delete of the left maximum included
RECURSIVE DeleteCalls(_, _, _)
DeleteCalls(h, n, e) ==
    IF n = EMPTY_NODE THEN {}
    ELSE {<<n, e>>} \cup
         (IF e > h[n].entry THEN DeleteCalls(h, h[n].right, e)
          ELSE IF e < h[n].entry THEN DeleteCalls(h, h[n].left, e)
          ELSE IF h[n].left # EMPTY_NODE
              THEN DeleteCalls(h, h[n].left, Greatest(Contents(h, h[n].left)))
          ELSE {})

\* left.height - right.height at n once its child on the side of e has been
\* replaced by what insert(e) returned for it: what _balanced_tree sees
SeenByInsert(h, n, e) ==
    IF e > h[n].entry
        THEN Height(h, h[n].left) - Height(insert(h, h[n].right, e).h,
                                           insert(h, h[n].right, e).r)
    ELSE IF e < h[n].entry
        THEN Height(insert(h, h[n].left, e).h, insert(h, h[n].left, e).r)
                - Height(h, h[n].right)
    ELSE Height(h, h[n].left) - Height(h, h[n].right)

\* the same for delete(e) on n, where _balanced_tree runs: below n, or after
\* the left maximum has been taken out
SeenByDelete(h, n, e) ==
    IF e > h[n].entry
        THEN Height(h, h[n].left) - Height(delete(h, h[n].right, e).h,
                                           delete(h, h[n].right, e).r)
    ELSE IF e < h[n].entry \/ h[n].left # EMPTY_NODE
        THEN LET d == IF e < h[n].entry THEN e
                      ELSE Greatest(Contents(h, h[n].left))
                 sub == delete(h, h[n].left, d)
             IN  Height(sub.h, sub.r) - Height(h, h[n].right)
    ELSE 0

\* C20: insert(e) leaves tree.height as it was or raises it by exactly 1, a
\* successful delete(e) leaves it or lowers it by exactly 1; the same holds
\* for the subtree height at every position the operation passes, and every
\* balance factor its rebalancing step sees lies in -2..2.
C20_HeightSteps ==
    [][/\ result'.op = "insert" =>
             /\ Height(heap', t') - Height(heap, t) \in {0, 1}
             /\ TrueHeight(heap', t') - TrueHeight(heap, t) \in {0, 1}
             /\ \A n \in InsertCalls(heap, t, result'.arg) :
                   LET out == insert(heap, n, result'.arg)
                   IN  /\ Height(out.h, out.r) - Height(heap, n) \in {0, 1}
                       /\ SeenByInsert(heap, n, result'.arg) \in -2..2
       /\ (result'.op = "delete" /\ result'.st = "ok") =>
             /\ Height(heap', t') - Height(heap, t) \in {-1, 0}
             /\ TrueHeight(heap', t') - TrueHeight(heap, t) \in {-1, 0}
             /\ \A c \in DeleteCalls(heap, t, result'.arg) :
                   LET out == delete(heap, c[1], c[2])
                   IN  /\ out.st = "ok"
                       /\ Height(out.h, out.r) - Height(heap, c[1]) \in {-1, 0}
                       /\ SeenByDelete(heap, c[1], c[2]) \in -2..2]_vars

\* a successful delete of the least entry has left three entries at height
\* 2: the four entries before it stood at height 3
C20_Witness ==
    /\ result.op = "delete" /\ result.st = "ok"
    /\ len(heap, t) = 3 /\ Height(heap, t) = 2
    /\ \A e \in Contents(heap, t) : result.arg < e

=============================================================================
